---- MODULE Spec2Model ----
(***************************************************************************)
(* Model of the pool-based reductions of making_python_fast:               *)
(*   code/averaging.py           get_average, for_loop_get_average         *)
(*   code/summing.py             get_sum (shared cell), for_loop_get_sum   *)
(*   code/summing_on_summing.py  get_sums / get_sum (keyed store)          *)
(* Each program has its own specification (SpecAvg, SpecSum, SpecSums)     *)
(* over one set of variables; the variables of the other programs stay at  *)
(* their initial values.                                                   *)
(***************************************************************************)
EXTENDS Integers, Sequences, FiniteSets, TLC

\* ------------------------------------------------------------------ bounds
MaxLen == 3
MaxNeg == 1
MaxVal == 2
NumWorkers == 2

\* element values: negative, zero and positive ints
Values == (0 - MaxNeg)..MaxVal

RECURSIVE SeqsUpTo(_, _)
SeqsUpTo(S, n) ==
  IF n = 0 THEN {<< >>}
  ELSE LET shorter == SeqsUpTo(S, n - 1)
       IN shorter \cup {Append(s, x) : s \in {t \in shorter : Len(t) = n - 1}, x \in S}

Listings == SeqsUpTo(Values, MaxLen)

\* ------------------------------------------------------- python values
\* A Python name bound either to an int or to the bool False.  Truthiness
\* looks at the value only: the int 0 and False are both falsy.
PyInt(n) == [kind |-> "int", val |-> n]
PyFalse == [kind |-> "bool", val |-> 0]
Truthy(x) == x.val # 0

\* Outcome of a call: not made yet, returned num/den, or raised exc.
NoOutcome == [kind |-> "none", num |-> 0, den |-> 1, exc |-> ""]
Ret(n, d) == [kind |-> "return", num |-> n, den |-> d, exc |-> ""]
Raise(e) == [kind |-> "raise", num |-> 0, den |-> 1, exc |-> e]
\* Python == on two returned numbers (exact for the small ints modelled).
NumEq(a, b) == a.num * b.den = b.num * a.den

\* ------------------------------------------------------------ variables
VARIABLES
  listing,     \* averaging: the argument of get_average / for_loop_get_average
  pc,          \* averaging: position of get_average
  summ,        \* averaging: local summ
  next_elem,   \* averaging: local next_elem
  cursor,      \* averaging: elements consumed from generate(listing)
  pool,        \* averaging: "none", "open", "joined"
  unit,        \* averaging: the apply_async unit of line 24
  submitted,   \* averaging: number of units submitted
  multithreaded_ave, \* averaging: outcome of get_average
  for_loop_ave,      \* averaging: outcome of for_loop_get_average
  statistics_ave,    \* averaging: outcome of statistics.mean
  all_equal,         \* averaging: value printed by line 54 ("unset" before)
  sListing,    \* summing: the argument of get_sum
  sPc,         \* summing: position of get_sum
  sNext,       \* summing: local next_elem
  sCursor,     \* summing: elements consumed from generate(listing)
  sPool,       \* summing: "none", "open"
  cell,        \* summing: dicter["current_sum"]
  units,       \* summing: units submitted with apply_async, in order
  sOutcome,    \* summing: outcome of get_sum
  sizes,       \* sums: the argument of get_sums
  gPc,         \* sums: position of get_sums
  next_list,   \* sums: local next_list
  list_size,   \* sums: local list_size
  gCursor,     \* sums: entries consumed from get_listing(sizes)
  gPool,       \* sums: "none", "open", "closed", "joined"
  jobs,        \* sums: get_sum jobs submitted with apply_async, in order
  dicter,      \* sums: the manager dict (keyed result store)
  gOutcome     \* sums: outcome of get_sums

avgVars == <<listing, pc, summ, next_elem, cursor, pool, unit, submitted,
             multithreaded_ave, for_loop_ave, statistics_ave, all_equal>>
sumVars == <<sListing, sPc, sNext, sCursor, sPool, cell, units, sOutcome>>
sumsVars == <<sizes, gPc, next_list, list_size, gCursor, gPool, jobs, dicter,
              gOutcome>>
vars == <<avgVars, sumVars, sumsVars>>

\* --------------------------------------------------- baseline reducers
\* for_loop_get_sum: running total over the list, from 0.
RECURSIVE for_loop_get_sum(_)
for_loop_get_sum(l) ==
  IF l = << >> THEN 0 ELSE for_loop_get_sum(SubSeq(l, 1, Len(l) - 1)) + l[Len(l)]

\* Variant of for_loop_get_average that answers 0 for an empty list.
for_loop_get_average_guarded(l) ==
  IF Len(l) = 0 THEN Ret(0, 1) ELSE Ret(for_loop_get_sum(l), Len(l))

\* for_loop_get_average: float(summation)/len(listing); len 0 divides by zero.
for_loop_get_average(l) ==
  IF Len(l) = 0 THEN Raise("ZeroDivisionError")
  ELSE Ret(for_loop_get_sum(l), Len(l))

\* statistics.mean: StatisticsError on no data, else the exact mean.
statistics_mean(l) ==
  IF Len(l) = 0 THEN Raise("StatisticsError")
  ELSE Ret(for_loop_get_sum(l), Len(l))

\* sum(listing), the built-in reduction: fold from the left, starting at 0.
RECURSIVE builtin_sum(_)
builtin_sum(l) == IF l = << >> THEN 0 ELSE l[1] + builtin_sum(Tail(l))

\* Variant of summation that returns the element and drops the total.
summation_overwrite(elem, s) == elem

\* summation(elem, summ) of averaging.py and summing_on_summing.py.
summation(elem, s) == s + elem

\* =============================================================== averaging
IdleUnit == [st |-> "idle", elem |-> 0, summ |-> 0, ret |-> 0]

AvgIdle ==
  /\ listing = << >>
  /\ pc = "idle"
  /\ summ = 0
  /\ next_elem = PyFalse
  /\ cursor = 0
  /\ pool = "none"
  /\ unit = IdleUnit
  /\ submitted = 0
  /\ multithreaded_ave = NoOutcome
  /\ for_loop_ave = NoOutcome
  /\ statistics_ave = NoOutcome
  /\ all_equal = "unset"

AvgInit ==
  /\ listing \in Listings
  /\ pc = "start"
  /\ summ = 0
  /\ next_elem = PyFalse
  /\ cursor = 0
  /\ pool = "none"
  /\ unit = IdleUnit
  /\ submitted = 0
  /\ multithreaded_ave = NoOutcome
  /\ for_loop_ave = NoOutcome
  /\ statistics_ave = NoOutcome
  /\ all_equal = "unset"

\* lines 19-21: summ = 0; get_elem = generate(listing); next_elem = next(get_elem)
\* The first next() is outside any try: on an empty listing StopIteration
\* propagates out of get_average.
AvgStart ==
  /\ pc = "start"
  /\ summ' = 0
  /\ IF Len(listing) = 0
     THEN /\ pc' = "raised"
          /\ multithreaded_ave' = Raise("StopIteration")
          /\ UNCHANGED <<next_elem, cursor>>
     ELSE /\ pc' = "pool"
          /\ next_elem' = PyInt(listing[1])
          /\ cursor' = 1
          /\ UNCHANGED multithreaded_ave
  /\ UNCHANGED <<listing, pool, unit, submitted, for_loop_ave, statistics_ave,
                 all_equal, sumVars, sumsVars>>

\* line 22: pool = Pool()
AvgPool ==
  /\ pc = "pool"
  /\ pool' = "open"
  /\ pc' = "test"
  /\ UNCHANGED <<listing, summ, next_elem, cursor, unit, submitted,
                 multithreaded_ave, for_loop_ave, statistics_ave, all_equal,
                 sumVars, sumsVars>>

\* Variant of AvgSubmit that drops the handle instead of waiting on it.
AvgSubmitNoWait ==
  /\ pc = "test"
  /\ Truthy(next_elem)
  /\ unit' = [st |-> "queued", elem |-> next_elem.val, summ |-> summ, ret |-> 0]
  /\ submitted' = submitted + 1
  /\ pc' = "next"
  /\ UNCHANGED <<listing, summ, next_elem, cursor, pool, multithreaded_ave,
                 for_loop_ave, statistics_ave, all_equal, sumVars, sumsVars>>

\* lines 23-24: while next_elem: pool.apply_async(summation, (next_elem, summ))
AvgSubmit ==
  /\ pc = "test"
  /\ Truthy(next_elem)
  /\ unit' = [st |-> "queued", elem |-> next_elem.val, summ |-> summ, ret |-> 0]
  /\ submitted' = submitted + 1
  /\ pc' = "get"
  /\ UNCHANGED <<listing, summ, next_elem, cursor, pool, multithreaded_ave,
                 for_loop_ave, statistics_ave, all_equal, sumVars, sumsVars>>

\* line 23, condition false: leave the loop
AvgExit ==
  /\ pc = "test"
  /\ ~Truthy(next_elem)
  /\ pc' = "close"
  /\ UNCHANGED <<listing, summ, next_elem, cursor, pool, unit, submitted,
                 multithreaded_ave, for_loop_ave, statistics_ave, all_equal,
                 sumVars, sumsVars>>

\* a pool worker takes the queued unit
AvgWorkerTake ==
  /\ unit.st = "queued"
  /\ unit' = [unit EXCEPT !.st = "running"]
  /\ UNCHANGED <<listing, pc, summ, next_elem, cursor, pool, submitted,
                 multithreaded_ave, for_loop_ave, statistics_ave, all_equal,
                 sumVars, sumsVars>>

\* the worker runs summation(elem, summ) (lines 14-16) and posts the result
AvgWorkerRun ==
  /\ unit.st = "running"
  /\ unit' = [unit EXCEPT !.st = "ready", !.ret = summation(unit.elem, unit.summ)]
  /\ UNCHANGED <<listing, pc, summ, next_elem, cursor, pool, submitted,
                 multithreaded_ave, for_loop_ave, statistics_ave, all_equal,
                 sumVars, sumsVars>>

\* The worker's call of summation raises instead of returning (a worker
\* fault): the pool stores the exception in the unit's result handle.
AvgWorkerFault ==
  /\ unit.st = "running"
  /\ unit' = [unit EXCEPT !.st = "failed"]
  /\ UNCHANGED <<listing, pc, summ, next_elem, cursor, pool, submitted,
                 multithreaded_ave, for_loop_ave, statistics_ave, all_equal,
                 sumVars, sumsVars>>

\* Variant of AvgGetRaise that swallows the fault and goes on with the loop.
AvgGetSwallow ==
  /\ pc = "get"
  /\ unit.st = "failed"
  /\ unit' = IdleUnit
  /\ pc' = "next"
  /\ UNCHANGED <<listing, summ, next_elem, cursor, pool, submitted,
                 multithreaded_ave, for_loop_ave, statistics_ave, all_equal,
                 sumVars, sumsVars>>

\* line 24, .get() on a faulted unit: it re-raises the worker's exception.
\* Line 24 is outside the try of lines 25-28, so the exception leaves
\* get_average; lines 29-31 are skipped.
AvgGetRaise ==
  /\ pc = "get"
  /\ unit.st = "failed"
  /\ pc' = "raised"
  /\ multithreaded_ave' = Raise("WorkerFault")
  /\ UNCHANGED <<listing, summ, next_elem, cursor, pool, unit, submitted,
                 for_loop_ave, statistics_ave, all_equal, sumVars, sumsVars>>

\* line 24: summ = <async result>.get()
AvgGet ==
  /\ pc = "get"
  /\ unit.st = "ready"
  /\ summ' = unit.ret
  /\ unit' = IdleUnit
  /\ pc' = "next"
  /\ UNCHANGED <<listing, next_elem, cursor, pool, submitted,
                 multithreaded_ave, for_loop_ave, statistics_ave, all_equal,
                 sumVars, sumsVars>>

\* Variant of AvgNext without the try/except: exhaustion raises.
AvgNextNoTry ==
  /\ pc = "next"
  /\ IF cursor < Len(listing)
     THEN /\ next_elem' = PyInt(listing[cursor + 1])
          /\ cursor' = cursor + 1
          /\ pc' = "test"
          /\ UNCHANGED multithreaded_ave
     ELSE /\ pc' = "raised"
          /\ multithreaded_ave' = Raise("StopIteration")
          /\ UNCHANGED <<next_elem, cursor>>
  /\ UNCHANGED <<listing, summ, pool, unit, submitted, for_loop_ave,
                 statistics_ave, all_equal, sumVars, sumsVars>>

\* lines 25-28: try: next_elem = next(get_elem) except: next_elem = False
AvgNext ==
  /\ pc = "next"
  /\ IF cursor < Len(listing)
     THEN /\ next_elem' = PyInt(listing[cursor + 1])
          /\ cursor' = cursor + 1
     ELSE /\ next_elem' = PyFalse
          /\ UNCHANGED cursor
  /\ pc' = "test"
  /\ UNCHANGED <<listing, summ, pool, unit, submitted, multithreaded_ave,
                 for_loop_ave, statistics_ave, all_equal, sumVars, sumsVars>>

\* lines 29-30: pool.close(); pool.join()  (join waits for outstanding units)
AvgClose ==
  /\ pc = "close"
  /\ unit.st = "idle"
  /\ pool' = "joined"
  /\ pc' = "ret"
  /\ UNCHANGED <<listing, summ, next_elem, cursor, unit, submitted,
                 multithreaded_ave, for_loop_ave, statistics_ave, all_equal,
                 sumVars, sumsVars>>

\* line 31: return summ
AvgReturn ==
  /\ pc = "ret"
  /\ multithreaded_ave' = Ret(summ, 1)
  /\ pc' = "done"
  /\ UNCHANGED <<listing, summ, next_elem, cursor, pool, unit, submitted,
                 for_loop_ave, statistics_ave, all_equal, sumVars, sumsVars>>

\* a call of for_loop_get_average(listing) (as on line 43)
CallForLoopAverage ==
  /\ for_loop_ave.kind = "none"
  /\ for_loop_ave' = for_loop_get_average(listing)
  /\ UNCHANGED <<listing, pc, summ, next_elem, cursor, pool, unit, submitted,
                 multithreaded_ave, statistics_ave, all_equal, sumVars, sumsVars>>

\* a call of statistics.mean(listing) (as on line 51)
CallMean ==
  /\ statistics_ave.kind = "none"
  /\ statistics_ave' = statistics_mean(listing)
  /\ UNCHANGED <<listing, pc, summ, next_elem, cursor, pool, unit, submitted,
                 multithreaded_ave, for_loop_ave, all_equal, sumVars, sumsVars>>

\* line 54: for_loop_ave == multithreaded_ave == statistics_ave, reached only
\* when the three calls returned.
CorrectnessCheck ==
  /\ all_equal = "unset"
  /\ for_loop_ave.kind = "return"
  /\ multithreaded_ave.kind = "return"
  /\ statistics_ave.kind = "return"
  /\ all_equal' = IF NumEq(for_loop_ave, multithreaded_ave)
                     /\ NumEq(multithreaded_ave, statistics_ave)
                  THEN "True" ELSE "False"
  /\ UNCHANGED <<listing, pc, summ, next_elem, cursor, pool, unit, submitted,
                 multithreaded_ave, for_loop_ave, statistics_ave, sumVars,
                 sumsVars>>

\* =============================================================== summing
SumIdle ==
  /\ sListing = << >>
  /\ sPc = "idle"
  /\ sNext = PyFalse
  /\ sCursor = 0
  /\ sPool = "none"
  /\ cell = 0
  /\ units = << >>
  /\ sOutcome = NoOutcome

SumInit ==
  /\ sListing \in Listings
  /\ sPc = "start"
  /\ sNext = PyFalse
  /\ sCursor = 0
  /\ sPool = "none"
  /\ cell = 0
  /\ units = << >>
  /\ sOutcome = NoOutcome

\* summation(elem, dicter) of summing.py, line 10:
\*   dicter["current_sum"] += elem
\* on a manager dict proxy is a __getitem__ call followed by a __setitem__
\* call; cur is the value the __getitem__ returned.
summation_cell_twice(elem, cur) == cur + elem + elem

\* Variant of summation_cell that is off by one.
summation_cell_off_by_one(elem, cur) == cur + elem + 1

summation_cell(elem, cur) == cur + elem

InFlight == {u \in DOMAIN units : units[u].st = "inflight"}
Finished(u) == units[u].st \in {"done", "faulted"}

\* lines 13-17: manager dict with current_sum 0; first next() with no try
SumStart ==
  /\ sPc = "start"
  /\ cell' = 0
  /\ IF Len(sListing) = 0
     THEN /\ sPc' = "raised"
          /\ sOutcome' = Raise("StopIteration")
          /\ UNCHANGED <<sNext, sCursor>>
     ELSE /\ sPc' = "pool"
          /\ sNext' = PyInt(sListing[1])
          /\ sCursor' = 1
          /\ UNCHANGED sOutcome
  /\ UNCHANGED <<sListing, sPool, units, avgVars, sumsVars>>

\* line 18: pool = Pool()
SumPool ==
  /\ sPc = "pool"
  /\ sPool' = "open"
  /\ sPc' = "test"
  /\ UNCHANGED <<sListing, sNext, sCursor, cell, units, sOutcome, avgVars,
                 sumsVars>>

\* lines 19-20: while next_elem: pool.apply_async(summation, (next_elem, dicter))
\* The handle is dropped; nothing waits for the unit.
SumSubmit ==
  /\ sPc = "test"
  /\ Truthy(sNext)
  /\ units' = Append(units, [elem |-> sNext.val, st |-> "pending", tmp |-> 0])
  /\ sPc' = "next"
  /\ UNCHANGED <<sListing, sNext, sCursor, sPool, cell, sOutcome, avgVars,
                 sumsVars>>

\* lines 21-24: try: next_elem = next(get_elem) except: next_elem = False
SumNext ==
  /\ sPc = "next"
  /\ IF sCursor < Len(sListing)
     THEN /\ sNext' = PyInt(sListing[sCursor + 1])
          /\ sCursor' = sCursor + 1
     ELSE /\ sNext' = PyFalse
          /\ UNCHANGED sCursor
  /\ sPc' = "test"
  /\ UNCHANGED <<sListing, sPool, cell, units, sOutcome, avgVars, sumsVars>>

\* line 19 with a falsy next_elem, then line 25: return dicter["current_sum"]
\* There is no close/join before the read.
SumReturn ==
  /\ sPc = "test"
  /\ ~Truthy(sNext)
  /\ sOutcome' = Ret(cell, 1)
  /\ sPc' = "done"
  /\ UNCHANGED <<sListing, sNext, sCursor, sPool, cell, units, avgVars,
                 sumsVars>>

\* A free worker takes the oldest pending unit and performs the read half of
\* line 10.
UnitRead(u) ==
  /\ units[u].st = "pending"
  /\ \A v \in 1..(u - 1) : units[v].st # "pending"
  /\ Cardinality(InFlight) < NumWorkers
  /\ units' = [units EXCEPT ![u].st = "inflight", ![u].tmp = cell]
  /\ UNCHANGED <<sListing, sPc, sNext, sCursor, sPool, cell, sOutcome,
                 avgVars, sumsVars>>

\* The worker performs the write half of line 10.
UnitWrite(u) ==
  /\ units[u].st = "inflight"
  /\ cell' = summation_cell(units[u].elem, units[u].tmp)
  /\ units' = [units EXCEPT ![u].st = "done"]
  /\ UNCHANGED <<sListing, sPc, sNext, sCursor, sPool, sOutcome, avgVars,
                 sumsVars>>

\* Variant of UnitRaise in which the fault also aborts get_sum.
UnitRaiseAbortsJob(u) ==
  /\ units[u].st = "inflight"
  /\ units' = [units EXCEPT ![u].st = "faulted"]
  /\ sPc' = "raised"
  /\ sOutcome' = Raise("WorkerFault")
  /\ UNCHANGED <<sListing, sNext, sCursor, sPool, cell, avgVars, sumsVars>>

\* The worker's call of summation raises before its write (a worker fault):
\* the exception goes into the handle that line 20 dropped; nobody reads it
\* and the unit is not run again.
UnitRaise(u) ==
  /\ units[u].st = "inflight"
  /\ units' = [units EXCEPT ![u].st = "faulted"]
  /\ UNCHANGED <<sListing, sPc, sNext, sCursor, sPool, cell, sOutcome,
                 avgVars, sumsVars>>

\* manager and dicter are locals of get_sum (lines 13-14): once get_sum has
\* returned the manager process may already be gone, and a unit that still
\* has to talk to it faults instead of applying its contribution.
UnitFault(u) ==
  /\ sPc = "done"
  /\ units[u].st \in {"pending", "inflight"}
  /\ units' = [units EXCEPT ![u].st = "faulted"]
  /\ UNCHANGED <<sListing, sPc, sNext, sCursor, sPool, cell, sOutcome,
                 avgVars, sumsVars>>

\* ================================================================== sums
MaxJobs == 2
MaxSize == 2
MaxRand == 1

\* random.randint(0, 10000) of line 36, over a small range
RandVals == 0..MaxRand
SizeLists == SeqsUpTo(0..MaxSize, MaxJobs)

\* Names bound at module level in summing_on_summing.py (imports and defs).
ModuleGlobals ==
  {"Pool", "Manager", "time", "random", "get_element", "summation", "get_sum",
   "for_loop_get_sum", "get_listing", "get_sums", "time_comparison"}

\* next_list is a list, or the bool False after exhaustion; a list is truthy
\* iff it is not empty.
PyList(l) == [kind |-> "list", items |-> l]
PyFalseList == [kind |-> "bool", items |-> << >>]
TruthyList(x) == x.kind = "list" /\ Len(x.items) > 0

SumsIdle ==
  /\ sizes = << >>
  /\ gPc = "idle"
  /\ next_list = PyFalseList
  /\ list_size = 0
  /\ gCursor = 0
  /\ gPool = "none"
  /\ jobs = << >>
  /\ dicter = << >>
  /\ gOutcome = "none"

SumsInit ==
  /\ sizes \in SizeLists
  /\ gPc = "start"
  /\ next_list = PyFalseList
  /\ list_size = 0
  /\ gCursor = 0
  /\ gPool = "none"
  /\ jobs = << >>
  /\ dicter = << >>
  /\ gOutcome = "none"

\* get_listing, line 36: a list of n random ints
RandomLists(n) == [1..n -> RandVals]

\* The loop of get_sum, lines 14-23, as a function of the listing reached at
\* line 18: the running total grows by summation() until next_elem is falsy.
RECURSIVE chained_total(_, _, _)
chained_total(l, i, current_sum) ==
  IF i > Len(l) \/ l[i] = 0 THEN current_sum
  ELSE chained_total(l, i + 1, summation(l[i], current_sum))

\* dicter[key] = value on the manager dict
StoreSet(d, key, value) ==
  [k \in (DOMAIN d) \cup {key} |-> IF k = key THEN value ELSE d[k]]

Running == {j \in DOMAIN jobs : jobs[j].st = "running"}
JobFinished(j) == jobs[j].st \in {"done", "faulted"}

\* lines 39-40: first next(to_compute), outside any try
GStart ==
  /\ gPc = "start"
  /\ IF Len(sizes) = 0
     THEN /\ gPc' = "raised"
          /\ gOutcome' = "raised"
          /\ UNCHANGED <<next_list, list_size, gCursor>>
     ELSE /\ \E l \in RandomLists(sizes[1]) : next_list' = PyList(l)
          /\ list_size' = sizes[1]
          /\ gCursor' = 1
          /\ gPc' = "pool"
          /\ UNCHANGED gOutcome
  /\ UNCHANGED <<sizes, gPool, jobs, dicter, avgVars, sumVars>>

\* lines 41-43: manager, dicter = manager.dict(), pool = Pool()
GPool ==
  /\ gPc = "pool"
  /\ dicter' = << >>
  /\ gPool' = "open"
  /\ gPc' = "test"
  /\ UNCHANGED <<sizes, next_list, list_size, gCursor, jobs, gOutcome,
                 avgVars, sumVars>>

\* lines 44-45: while next_list: pool.apply_async(get_sum, (next_list, dicter,
\* list_size)); the handle is dropped
GSubmit ==
  /\ gPc = "test"
  /\ TruthyList(next_list)
  /\ jobs' = Append(jobs, [listing |-> next_list.items, key |-> list_size,
                           st |-> "pending", exc |-> ""])
  /\ gPc' = "next"
  /\ UNCHANGED <<sizes, next_list, list_size, gCursor, gPool, dicter,
                 gOutcome, avgVars, sumVars>>

\* lines 46-49: try: next_list, list_size = next(to_compute)
\*              except: next_list = False
GNext ==
  /\ gPc = "next"
  /\ IF gCursor < Len(sizes)
     THEN /\ \E l \in RandomLists(sizes[gCursor + 1]) : next_list' = PyList(l)
          /\ list_size' = sizes[gCursor + 1]
          /\ gCursor' = gCursor + 1
     ELSE /\ next_list' = PyFalseList
          /\ UNCHANGED <<list_size, gCursor>>
  /\ gPc' = "test"
  /\ UNCHANGED <<sizes, gPool, jobs, dicter, gOutcome, avgVars, sumVars>>

\* line 44 with a falsy next_list, then line 50: pool.close()
GClose ==
  /\ gPc = "test"
  /\ ~TruthyList(next_list)
  /\ gPool' = "closed"
  /\ gPc' = "join"
  /\ UNCHANGED <<sizes, next_list, list_size, gCursor, jobs, dicter, gOutcome,
                 avgVars, sumVars>>

\* Variant of GJoin that does not wait for the jobs.
GJoinNoWait ==
  /\ gPc = "join"
  /\ gPool' = "joined"
  /\ gPc' = "ret"
  /\ UNCHANGED <<sizes, next_list, list_size, gCursor, jobs, dicter, gOutcome,
                 avgVars, sumVars>>

\* line 51: pool.join() returns once the workers have run every queued job
GJoin ==
  /\ gPc = "join"
  /\ \A j \in DOMAIN jobs : JobFinished(j)
  /\ gPool' = "joined"
  /\ gPc' = "ret"
  /\ UNCHANGED <<sizes, next_list, list_size, gCursor, jobs, dicter, gOutcome,
                 avgVars, sumVars>>

\* line 52: return dicter
GReturn ==
  /\ gPc = "ret"
  /\ gOutcome' = "returned"
  /\ gPc' = "done"
  /\ UNCHANGED <<sizes, next_list, list_size, gCursor, gPool, jobs, dicter,
                 avgVars, sumVars>>

\* a free worker takes the oldest pending job
JobTake(j) ==
  /\ jobs[j].st = "pending"
  /\ \A i \in 1..(j - 1) : jobs[i].st # "pending"
  /\ Cardinality(Running) < NumWorkers
  /\ jobs' = [jobs EXCEPT ![j].st = "running"]
  /\ UNCHANGED <<sizes, gPc, next_list, list_size, gCursor, gPool, dicter,
                 gOutcome, avgVars, sumVars>>

\* Variant of JobRun that stores the initial total before it faults.
JobRunWritesFirst(j) ==
  /\ jobs[j].st = "running"
  /\ jobs' = [jobs EXCEPT ![j].st = "faulted", ![j].exc = "NameError"]
  /\ dicter' = StoreSet(dicter, jobs[j].key, 0)
  /\ UNCHANGED <<sizes, gPc, next_list, list_size, gCursor, gPool, gOutcome,
                 avgVars, sumVars>>

\* The worker runs get_sum(listing, dicter, list_size), lines 13-26.  Line 15
\* calls generate, a name the module never binds (its generator is called
\* get_element): the call raises NameError, the job faults and line 26 is
\* not reached.  The exception stays in the dropped handle.
JobRun(j) ==
  /\ jobs[j].st = "running"
  /\ IF "generate" \notin ModuleGlobals
     THEN /\ jobs' = [jobs EXCEPT ![j].st = "faulted", ![j].exc = "NameError"]
          /\ UNCHANGED dicter
     ELSE IF Len(jobs[j].listing) = 0
     THEN /\ jobs' = [jobs EXCEPT ![j].st = "faulted", ![j].exc = "StopIteration"]
          /\ UNCHANGED dicter
     ELSE /\ jobs' = [jobs EXCEPT ![j].st = "done"]
          /\ dicter' = StoreSet(dicter, jobs[j].key,
                                chained_total(jobs[j].listing, 1, 0))
  /\ UNCHANGED <<sizes, gPc, next_list, list_size, gCursor, gPool, gOutcome,
                 avgVars, sumVars>>

\* ------------------------------------------------------- specifications
InitAvg == AvgInit /\ SumIdle /\ SumsIdle

NextAvg ==
  \/ AvgStart
  \/ AvgPool
  \/ AvgSubmit
  \/ AvgExit
  \/ AvgWorkerTake
  \/ AvgWorkerRun
  \/ AvgWorkerFault
  \/ AvgGetRaise
  \/ AvgGet
  \/ AvgNext
  \/ AvgClose
  \/ AvgReturn
  \/ CallForLoopAverage
  \/ CallMean
  \/ CorrectnessCheck

SpecAvg == InitAvg /\ [][NextAvg]_vars

\* The thread running get_average keeps running, and the pool's workers keep
\* taking and running queued units.
GetAverageStep ==
  \/ AvgStart
  \/ AvgPool
  \/ AvgSubmit
  \/ AvgExit
  \/ AvgGet
  \/ AvgGetRaise
  \/ AvgNext
  \/ AvgClose
  \/ AvgReturn

FairSpecAvg ==
  /\ InitAvg
  /\ [][NextAvg]_vars
  /\ WF_vars(GetAverageStep)
  /\ WF_vars(AvgWorkerTake)
  /\ WF_vars(AvgWorkerRun)

InitSum == SumInit /\ AvgIdle /\ SumsIdle

NextSum ==
  \/ SumStart
  \/ SumPool
  \/ SumSubmit
  \/ SumNext
  \/ SumReturn
  \/ \E u \in DOMAIN units : UnitRead(u)
  \/ \E u \in DOMAIN units : UnitWrite(u)
  \/ \E u \in DOMAIN units : UnitRaise(u)
  \/ \E u \in DOMAIN units : UnitFault(u)

SpecSum == InitSum /\ [][NextSum]_vars

InitSums == SumsInit /\ AvgIdle /\ SumIdle

NextSums ==
  \/ GStart
  \/ GPool
  \/ GSubmit
  \/ GNext
  \/ GClose
  \/ GJoin
  \/ GReturn
  \/ \E j \in DOMAIN jobs : JobTake(j)
  \/ \E j \in DOMAIN jobs : JobRun(j)

SpecSums == InitSums /\ [][NextSums]_vars

\* ================================================================ claims
NonNegative(l) == \A i \in DOMAIN l : l[i] >= 0
AllUnitsFinished == \A u \in DOMAIN units : Finished(u)
AllJobsFinished == \A j \in DOMAIN jobs : JobFinished(j)
JobsWithKey(k) == {j \in DOMAIN jobs : jobs[j].key = k}
SizeSet == {sizes[i] : i \in DOMAIN sizes}
DistinctSizes == \A i, j \in DOMAIN sizes : i # j => sizes[i] # sizes[j]

\* C1 (SpecAvg): when get_average's chained loop has ended on a list, empty
\* lists and lists containing 0 included, it has produced a total, and that
\* total equals the for-loop sum of the list, which equals the built-in sum.
C1_ChainedEqualsSequential ==
  pc \in {"done", "raised"} =>
    /\ multithreaded_ave.kind = "return"
    /\ multithreaded_ave.num = for_loop_get_sum(listing)
    /\ for_loop_get_sum(listing) = builtin_sum(listing)

\* C2 (SpecAvg): on a non-empty list get_average returns the value
\* for_loop_get_average returns, and the "all three equal" check of line 54
\* evaluates to True.
C2_AllThreeEqual ==
  Len(listing) > 0 =>
    /\ (multithreaded_ave.kind = "return" /\ for_loop_ave.kind = "return"
          => NumEq(multithreaded_ave, for_loop_ave))
    /\ (all_equal # "unset" => all_equal = "True")

\* C3 (SpecSum): once get_sum has submitted a unit for every element of S and
\* every unit has completed without fault, whatever the interleaving of the
\* workers' reads and writes, the shared cell holds for_loop_get_sum(S).
C3_SettledCellEqualsSum ==
  (/\ sPc = "done"
   /\ Len(units) = Len(sListing)
   /\ \A u \in DOMAIN units : units[u].st = "done")
    => cell = for_loop_get_sum(sListing)

\* C4 (SpecSum): on a list of non-negative integers, the value get_sum
\* returns is at most for_loop_get_sum of the list.
C4_ReturnAtMostSum ==
  (sOutcome.kind = "return" /\ NonNegative(sListing))
    => sOutcome.num <= for_loop_get_sum(sListing)

\* C4 witness: get_sum returned on a non-negative list after some unit had
\* applied its contribution, with a value strictly below the sum.
C4_Witness ==
  /\ sOutcome.kind = "return"
  /\ NonNegative(sListing)
  /\ sOutcome.num > 0
  /\ sOutcome.num < for_loop_get_sum(sListing)

\* C5 (SpecSums): when get_sums has launched a job for every entry of
\* pairwise distinct sizes and returned, the store has exactly one entry per
\* size, and each entry is the sequential sum of the list launched with it.
C5_DistinctKeysStore ==
  (gOutcome = "returned" /\ DistinctSizes /\ Len(jobs) = Len(sizes)) =>
    /\ DOMAIN dicter = SizeSet
    /\ \A j \in DOMAIN jobs :
         dicter[jobs[j].key] = for_loop_get_sum(jobs[j].listing)

\* C6 (SpecSums): when get_sums has launched a job for every entry of sizes
\* and returned, every size has an entry in the store, and the entry holds
\* the sequential sum of one of the jobs launched with that size (the only
\* one when the size is not shared).
C6_CollidingKeysStore ==
  (gOutcome = "returned" /\ ~DistinctSizes /\ Len(jobs) = Len(sizes)) =>
    /\ DOMAIN dicter = SizeSet
    /\ \A k \in SizeSet :
         \E j \in JobsWithKey(k) : dicter[k] = for_loop_get_sum(jobs[j].listing)

\* C7 (SpecAvg): on the empty list neither get_average nor
\* for_loop_get_average ever returns a number; each call ends by raising.
C7_EmptyAverageRaises ==
  listing = << >> =>
    /\ multithreaded_ave.kind # "return"
    /\ for_loop_ave.kind # "return"
    /\ (pc # "start" => pc = "raised" /\ multithreaded_ave.kind = "raise")
    /\ (for_loop_ave.kind # "none" => for_loop_ave.kind = "raise")
    /\ all_equal = "unset"

\* C7 witness: both calls were made on the empty list and both raised.
C7_Witness ==
  /\ listing = << >>
  /\ multithreaded_ave.kind = "raise"
  /\ for_loop_ave.kind = "raise"

\* C8 (SpecSum): when get_sum has read dicter["current_sum"] and returned,
\* every unit it submitted has completed or faulted; none is pending or in
\* flight.
C8_ReturnAfterAllUnits ==
  sOutcome.kind = "return" => AllUnitsFinished

\* C9 (SpecSums): get_sums never waits on a job while submitting (its loop
\* can step whatever the jobs' states are), get_sums has returned only when
\* every launched job has completed or faulted, and after the return no job
\* runs and the store is not written.
C9_JoinAllBeforeReturn ==
  /\ [](gPc \in {"test", "next"} => ENABLED (GSubmit \/ GNext \/ GClose))
  /\ [](gPc \in {"ret", "done"} => AllJobsFinished)
  /\ [][gPc = "done" => (jobs' = jobs /\ dicter' = dicter)]_vars

\* C9 witness: get_sums returned after launching at least two jobs.
C9_Witness ==
  /\ gOutcome = "returned"
  /\ Len(jobs) >= 2
  /\ AllJobsFinished

\* C10 (SpecAvg): when get_average's dispatch loop has ended, it has
\* submitted one unit per element of the listing, and it ended on the
\* exhaustion marker False, not on an element.
C10_OneUnitPerElement ==
  pc \in {"close", "ret", "done"} =>
    /\ submitted = Len(listing)
    /\ next_elem.kind = "bool"

\* C11 (SpecSum): when a job that created a worker pool has handed control
\* back to its caller by returning, the pool has been closed and joined.
C11_PoolShutDownOnExit ==
  (sPc = "done" /\ sPool # "none") => sPool = "joined"

\* C12 (SpecAvg): once the unit of some element has faulted, get_average
\* submits no further unit and returns no total; its only step is to raise
\* the fault to its caller, and it raises on a non-empty listing for no
\* other reason.
C12_FaultFailsJob ==
  /\ [](unit.st = "failed" =>
          /\ pc \in {"get", "raised"}
          /\ multithreaded_ave.kind # "return"
          /\ (pc = "get" => ENABLED AvgGetRaise)
          /\ (pc = "raised" => multithreaded_ave = Raise("WorkerFault")))
  /\ []((pc = "raised" /\ Len(listing) > 0) => unit.st = "failed")
  /\ [][unit.st = "failed" =>
          /\ unit' = unit
          /\ submitted' = submitted
          /\ summ' = summ
          /\ multithreaded_ave'.kind # "return"]_vars

\* C12 witness: the unit of the second element faulted and get_average
\* raised the fault.
C12_Witness ==
  /\ pc = "raised"
  /\ unit.st = "failed"
  /\ submitted = 2
  /\ Len(listing) = 3
  /\ multithreaded_ave.kind = "raise"

\* C13 (SpecAvg): at most one unit is outstanding at any time: while a unit
\* is queued, running or finished but not yet received, get_average is
\* blocked in .get(); a unit is submitted only when none is outstanding, it
\* carries the current total, and the result of a unit is stored as the
\* current total when it is received.
C13_OneUnitInFlight ==
  /\ [](unit.st # "idle" => pc \in {"get", "raised"})
  /\ [][submitted' # submitted =>
          /\ submitted' = submitted + 1
          /\ unit.st = "idle"
          /\ unit'.st = "queued"
          /\ unit'.summ = summ]_vars
  /\ [][(unit.st = "ready" /\ unit'.st # "ready") =>
          (unit' = IdleUnit /\ summ' = unit.ret)]_vars

\* C13 witness: the unit of the second element is running, after the result
\* of the first was received and stored.
C13_Witness ==
  /\ unit.st = "running"
  /\ submitted = 2
  /\ summ = listing[1]
  /\ unit.summ = summ

C15_OneWritePerJob ==
  gOutcome = "returned" =>
    /\ \A j \in DOMAIN jobs :
         jobs[j].st = "done" /\ jobs[j].key \in DOMAIN dicter
    /\ DOMAIN dicter \subseteq SizeSet

\* C16 (SpecSums): when the submission loop of get_sums has ended, it has
\* launched exactly one job per entry of sizes, in order, each with the
\* entry as its key, entries of size 0 included.
C16_OneJobPerSize ==
  gPc \in {"join", "ret", "done"} =>
    /\ Len(jobs) = Len(sizes)
    /\ \A i \in DOMAIN jobs : jobs[i].key = sizes[i]

\* C17 (FairSpecAvg): on a non-empty listing get_average eventually returns
\* unless a unit faults; it never submits more units than the listing has
\* elements, the generator's cursor never moves back, and when get_average
\* has returned the pool is closed and joined.
C17_GetAverageReturns ==
  /\ [](submitted <= Len(listing))
  /\ [][cursor' >= cursor]_vars
  /\ [](pc = "done" => (pool = "joined" /\ multithreaded_ave.kind = "return"))
  /\ ((pc = "start" /\ Len(listing) > 0) ~> (pc = "done" \/ unit.st = "failed"))

\* C17 witness: get_average returned after one submission per element of a
\* three-element listing, with the pool joined.
C17_Witness ==
  /\ pc = "done"
  /\ Len(listing) = 3
  /\ submitted = 3
  /\ cursor = 3
  /\ pool = "joined"

\* Sum of the first k elements of the listing.
PrefixSum(k) == for_loop_get_sum(SubSeq(listing, 1, k))

\* C18 (SpecAvg): with k units submitted so far, the total is the sum of the
\* first k elements whenever the loop is at its test (about to submit the
\* element of index k, counted from 0) and after a result was received; the
\* unit in flight carries element k-1 and the sum of the k-1 before it; the
\* value returned is the sum of the first k elements.
C18_PrefixSum ==
  /\ (pc \in {"test", "next", "close", "ret"} => summ = PrefixSum(submitted))
  /\ ((pc = "test" /\ Truthy(next_elem)) => next_elem.val = listing[submitted + 1])
  /\ (pc = "get" =>
        /\ summ = PrefixSum(submitted - 1)
        /\ unit.summ = summ
        /\ unit.elem = listing[submitted])
  /\ (pc = "done" => multithreaded_ave = Ret(PrefixSum(submitted), 1))

\* C18 witness: get_average returned the sum of the first two elements of a
\* three-element listing.
C18_Witness ==
  /\ pc = "done"
  /\ Len(listing) = 3
  /\ submitted = 2
  /\ multithreaded_ave.num = listing[1] + listing[2]
  /\ listing[1] + listing[2] # listing[2]

\* Sum of the elements of the units in T.
RECURSIVE UnitSum(_)
UnitSum(T) ==
  IF T = {} THEN 0
  ELSE LET u == CHOOSE x \in T : TRUE IN units[u].elem + UnitSum(T \ {u})

DoneUnits == {u \in DOMAIN units : units[u].st = "done"}

\* C19 (SpecSum): in every reachable state the shared cell holds the sum of
\* the elements of some set of units that have performed their write, each
\* counted once; so does the value a unit in flight has read.
C19_SubsetSum ==
  /\ \E T \in SUBSET DoneUnits : cell = UnitSum(T)
  /\ \A u \in DOMAIN units :
       units[u].st = "inflight" =>
         \E T \in SUBSET (DoneUnits \ {u}) : units[u].tmp = UnitSum(T)

\* C19 witness: three units have written and the cell holds the element of
\* one of them only: two contributions were lost, none applied twice.
C19_Witness ==
  /\ Len(units) = 3
  /\ DoneUnits = {1, 2, 3}
  /\ cell = units[3].elem
  /\ cell # UnitSum({1, 2, 3})
  /\ units[1].elem > 0
  /\ units[2].elem > 0

\* C20 (SpecSums): a job that faults before its write does not fail
\* get_sums: get_sums raises only on an empty sizes list, its join goes
\* through once every job has completed or faulted, the step in which a job
\* faults changes neither the store nor get_sums, and the store holds a key
\* only if some job launched with that key completed its write.
C20_FaultedJobAbsent ==
  /\ [](gOutcome = "raised" => Len(sizes) = 0)
  /\ []((gPc = "join" /\ AllJobsFinished) => ENABLED GJoin)
  /\ [](\A k \in DOMAIN dicter : \E j \in JobsWithKey(k) : jobs[j].st = "done")
  /\ [][\A j \in DOMAIN jobs :
          (jobs[j].st # "faulted" /\ jobs'[j].st = "faulted") =>
            /\ dicter' = dicter
            /\ gPc' = gPc
            /\ gOutcome' = gOutcome
            /\ \A i \in DOMAIN jobs \ {j} : jobs'[i] = jobs[i]]_vars

\* C20 witness: get_sums returned normally after both of its jobs faulted,
\* and their keys are absent from the store.
C20_Witness ==
  /\ gOutcome = "returned"
  /\ Len(jobs) = 2
  /\ \A j \in DOMAIN jobs :
       jobs[j].st = "faulted" /\ jobs[j].key \notin DOMAIN dicter

====
